---- MODULE Spec2Model ----
(***************************************************************************)
(* Session store (AuthService) and view controller (App) of               *)
(* src/src/app/app.component.ts as a state machine.                       *)
(*                                                                         *)
(* A value of type `string | null` is a sequence of length at most one:   *)
(* None is null, Some(s) is the string s.  The empty string "" is a       *)
(* string like any other: it is stored as given and it is falsy under !!. *)
(***************************************************************************)
EXTENDS Naturals, Sequences, FiniteSets

VARIABLES
    localStorage,   \* the browser's key-value storage: key -> string | null
    token,          \* AuthService.token   (signal<string | null>)
    role,           \* AuthService.role    (signal<string | null>)
    currentPage,    \* App.currentPage     (signal<Page>)
    errorMsg,       \* App.errorMsg        (signal<string | null>)
    isSubmitting,   \* App.isSubmitting    (signal<boolean>)
    http,           \* the requests issued by AuthService.login, in order
    submitted,      \* how many times onLogin was invoked
    console,        \* the last line written to the console
    phase,          \* "constructed" until ngOnInit has run, then "ready"
    storeCall,      \* history: the most recent call made on the AuthService
    last            \* history: the most recent handler that ran

vars == <<localStorage, token, role, currentPage, errorMsg, isSubmitting,
          http, submitted, console, phase, storeCall, last>>

-----------------------------------------------------------------------------
(* Bounds and input domains *)

\* onLogin is invoked at most this many times in a behaviour.
MaxSubmissions == 2

None == <<>>
Some(s) == <<s>>

\* The token and role strings a caller or the endpoint can supply.
Tokens == {"", "T1", "T2"}
Roles == {"", "ADMIN"}

\* What the failure callback can receive: 401, another status, no connection.
Errors == {"401", "500", "network"}

-----------------------------------------------------------------------------
(* Types and program constants *)

Page == {"login", "dashboard"}

tokenKey == "jwt_token"
roleKey == "user_role"
Keys == {tokenKey, roleKey}

FixedErrorMsg == "Usuario o contraseña incorrectos. Por favor, inténtalo de nuevo."

\* JavaScript's !!v for v : string | null -- null and "" are falsy.
Truthy(v) == v # None /\ v[1] # ""

-----------------------------------------------------------------------------
(* AuthService *)

\* The part of the state AuthService reads and writes.
Store == [ls |-> localStorage, token |-> token, role |-> role]

\* Field initialisers: both signals are read from localStorage.
restore(ls) == [ls |-> ls, token |-> ls[tokenKey], role |-> ls[roleKey]]

isAuthenticated(tok) == Truthy(tok)

\* Mutant: setSession without `localStorage.setItem(this.roleKey, role)`.
setSessionSkipsRoleKey(st, t, r) ==
    [ls    |-> [st.ls EXCEPT ![tokenKey] = Some(t)],
     token |-> Some(t),
     role  |-> Some(r)]

setSession(st, t, r) ==
    [ls    |-> [[st.ls EXCEPT ![tokenKey] = Some(t)] EXCEPT ![roleKey] = Some(r)],
     token |-> Some(t),
     role  |-> Some(r)]

\* Mutant: logout without `this.role.set(null)`.
logoutKeepsRoleSignal(st) ==
    [ls    |-> [[st.ls EXCEPT ![tokenKey] = None] EXCEPT ![roleKey] = None],
     token |-> None,
     role  |-> st.role]

\* Mutant: logout without `localStorage.removeItem(this.roleKey)`.
logoutKeepsRoleKey(st) ==
    [ls    |-> [st.ls EXCEPT ![tokenKey] = None],
     token |-> None,
     role  |-> None]

logout(st) ==
    [ls    |-> [[st.ls EXCEPT ![tokenKey] = None] EXCEPT ![roleKey] = None],
     token |-> None,
     role  |-> None]

\* Mutant: the POST issued twice per call (a retry).
loginTwice(reqs) == Append(Append(reqs, "pending"), "pending")

\* AuthService.login: one POST per call, appended as a pending request.
login(reqs) == Append(reqs, "pending")

-----------------------------------------------------------------------------
(* App.navigate as a function of the target and the token it reads *)

\* Mutant: the guard's negation dropped.
GuardRefusesInverted(page, tok) == page = "dashboard" /\ isAuthenticated(tok)

GuardRefuses(page, tok) == page = "dashboard" /\ ~isAuthenticated(tok)

\* Mutant: navigate without the guard.
navigatePageNoGuard(page, tok) == page

navigatePage(page, tok) == IF GuardRefuses(page, tok) THEN "login" ELSE page

navigateConsole(page, tok) ==
    IF GuardRefuses(page, tok)
    THEN [level |-> "warn", text |-> "Acceso denegado. Redirigiendo a login."]
    ELSE [level |-> "log",
          text  |-> IF page = "login" THEN "Navegando a: login"
                    ELSE "Navegando a: dashboard"]

-----------------------------------------------------------------------------
(* History records *)

NoCall == [op |-> "none", by |-> "none", token |-> None, role |-> None]
Call(op, by, t, r) == [op |-> op, by |-> by, token |-> t, role |-> r]

\* The handlers that call navigate, and those that only call logout().
NavigateCallers == {"ngOnInit", "navigate", "loginNext", "logoutAndNavigate"}
LogoutOnly == {"logout", "loginError"}

\* op: the handler; arg: its input; wasAuth, prevPage, prevStore, prevError,
\* wasSubmitting: the state it started from.  revoked: an authenticated
\* session was cleared by logout() alone while the dashboard was shown, and
\* navigate has not been called since; wasRevoked: revoked when op started.
Ran(op, arg) ==
    [op |-> op, arg |-> arg, wasAuth |-> isAuthenticated(token),
     prevPage |-> currentPage, prevStore |-> Store,
     prevError |-> errorMsg, wasSubmitting |-> isSubmitting,
     wasRevoked |-> last.revoked,
     revoked |->
        IF op \in NavigateCallers THEN FALSE
        ELSE IF op \in LogoutOnly /\ currentPage = "dashboard"
                /\ isAuthenticated(token) THEN TRUE
        ELSE last.revoked]

-----------------------------------------------------------------------------
(* Initial state: AuthService and App constructed, ngOnInit not yet run *)

\* The storage the application leaves behind: both keys or neither.
InitialStorages ==
    {[k \in Keys |-> None]} \cup
    {[k \in Keys |-> IF k = tokenKey THEN Some(t) ELSE Some(r)] :
        t \in Tokens, r \in Roles}

Init ==
    /\ localStorage \in InitialStorages
    /\ token = restore(localStorage).token
    /\ role = restore(localStorage).role
    /\ currentPage = "login"
    /\ errorMsg = None
    /\ isSubmitting = FALSE
    /\ http = <<>>
    /\ submitted = 0
    /\ console = [level |-> "log", text  |-> "AuthService inicializado. Backend en: http://localhost:8080"]
    /\ phase = "constructed"
    /\ storeCall = NoCall
    /\ last = [op |-> "constructor", arg |-> None, wasAuth |-> FALSE,
               prevPage |-> "login",
               prevStore |-> restore(localStorage),
               prevError |-> None, wasSubmitting |-> FALSE,
               wasRevoked |-> FALSE, revoked |-> FALSE]

-----------------------------------------------------------------------------
(* Handlers of App *)

NgOnInit ==
    /\ phase = "constructed"
    /\ LET page == IF isAuthenticated(token) THEN "dashboard" ELSE "login" IN
        /\ errorMsg' = None
        /\ currentPage' = navigatePage(page, token)
        /\ console' = navigateConsole(page, token)
        /\ last' = Ran("ngOnInit", Some(page))
    /\ phase' = "ready"
    /\ UNCHANGED <<localStorage, token, role, isSubmitting, http, submitted,
                   storeCall>>

\* Mutant: the error message cleared after the guard, so not when refused.
NavigateClearsAfterGuard(page) ==
    /\ phase = "ready"
    /\ errorMsg' = IF GuardRefuses(page, token) THEN errorMsg ELSE None
    /\ currentPage' = navigatePage(page, token)
    /\ console' = navigateConsole(page, token)
    /\ last' = Ran("navigate", Some(page))
    /\ UNCHANGED <<localStorage, token, role, isSubmitting, http, submitted,
                   phase, storeCall>>

Navigate(page) ==
    /\ phase = "ready"
    /\ errorMsg' = None
    /\ currentPage' = navigatePage(page, token)
    /\ console' = navigateConsole(page, token)
    /\ last' = Ran("navigate", Some(page))
    /\ UNCHANGED <<localStorage, token, role, isSubmitting, http, submitted,
                   phase, storeCall>>

OnLogin ==
    /\ phase = "ready"
    /\ submitted < MaxSubmissions
    /\ errorMsg' = None
    /\ isSubmitting' = TRUE
    /\ http' = login(http)
    /\ submitted' = submitted + 1
    /\ last' = Ran("onLogin", None)
    /\ UNCHANGED <<localStorage, token, role, currentPage, console, phase,
                   storeCall>>

\* Mutant: the submit button without [disabled]="isSubmitting()".
SubmitFormNotDisabled == currentPage = "login" /\ OnLogin

\* The form's submit trigger: the form is rendered only while currentPage()
\* is 'login', and its button is disabled while isSubmitting().
SubmitForm == currentPage = "login" /\ ~isSubmitting /\ OnLogin

\* subscribe's next callback for request i, the endpoint answering {token: t, role: r}
LoginNext(i, t, r) ==
    /\ phase = "ready"
    /\ i \in DOMAIN http /\ http[i] = "pending"
    /\ LET st == setSession(Store, t, r) IN
        /\ localStorage' = st.ls
        /\ token' = st.token
        /\ role' = st.role
        /\ errorMsg' = None
        /\ currentPage' = navigatePage("dashboard", st.token)
        /\ console' = navigateConsole("dashboard", st.token)
    /\ isSubmitting' = FALSE
    /\ http' = [http EXCEPT ![i] = "next"]
    /\ storeCall' = Call("setSession", "loginNext", Some(t), Some(r))
    /\ last' = Ran("loginNext", <<t, r>>)
    /\ UNCHANGED <<submitted, phase>>

\* Mutant: the error callback without the defensive logout.
LoginErrorNoLogout(i, err) ==
    /\ phase = "ready"
    /\ i \in DOMAIN http /\ http[i] = "pending"
    /\ errorMsg' = Some(FixedErrorMsg)
    /\ isSubmitting' = FALSE
    /\ http' = [http EXCEPT ![i] = "error"]
    /\ storeCall' = storeCall
    /\ last' = Ran("loginError", Some(err))
    /\ UNCHANGED <<localStorage, token, role, currentPage, console, submitted,
                   phase>>

\* Mutant: the error callback without `this.isSubmitting.set(false)`.
LoginErrorKeepsSubmitting(i, err) ==
    /\ phase = "ready"
    /\ i \in DOMAIN http /\ http[i] = "pending"
    /\ errorMsg' = Some(FixedErrorMsg)
    /\ LET st == logout(Store) IN
        /\ localStorage' = st.ls
        /\ token' = st.token
        /\ role' = st.role
    /\ http' = [http EXCEPT ![i] = "error"]
    /\ storeCall' = Call("logout", "loginError", None, None)
    /\ last' = Ran("loginError", Some(err))
    /\ UNCHANGED <<isSubmitting, currentPage, console, submitted, phase>>

\* Mutant: the error callback redirecting to the login page after logout().
LoginErrorRedirects(i, err) ==
    /\ phase = "ready"
    /\ i \in DOMAIN http /\ http[i] = "pending"
    /\ isSubmitting' = FALSE
    /\ LET st == logout(Store) IN
        /\ localStorage' = st.ls
        /\ token' = st.token
        /\ role' = st.role
        /\ errorMsg' = Some(FixedErrorMsg)
        /\ currentPage' = navigatePage("login", st.token)
        /\ console' = navigateConsole("login", st.token)
    /\ http' = [http EXCEPT ![i] = "error"]
    /\ storeCall' = Call("logout", "loginError", None, None)
    /\ last' = Ran("loginError", Some(err))
    /\ UNCHANGED <<submitted, phase>>

\* subscribe's error callback for request i
LoginError(i, err) ==
    /\ phase = "ready"
    /\ i \in DOMAIN http /\ http[i] = "pending"
    /\ errorMsg' = Some(FixedErrorMsg)
    /\ isSubmitting' = FALSE
    /\ LET st == logout(Store) IN
        /\ localStorage' = st.ls
        /\ token' = st.token
        /\ role' = st.role
    /\ http' = [http EXCEPT ![i] = "error"]
    /\ storeCall' = Call("logout", "loginError", None, None)
    /\ last' = Ran("loginError", Some(err))
    /\ UNCHANGED <<currentPage, console, submitted, phase>>

\* Mutant: logoutAndNavigate without `this.navigate('login')`.
LogoutAndNavigateNoNavigate ==
    /\ phase = "ready"
    /\ LET st == logout(Store) IN
        /\ localStorage' = st.ls
        /\ token' = st.token
        /\ role' = st.role
    /\ storeCall' = Call("logout", "logoutAndNavigate", None, None)
    /\ last' = Ran("logoutAndNavigate", None)
    /\ UNCHANGED <<currentPage, errorMsg, console, isSubmitting, http,
                   submitted, phase>>

LogoutAndNavigate ==
    /\ phase = "ready"
    /\ LET st == logout(Store) IN
        /\ localStorage' = st.ls
        /\ token' = st.token
        /\ role' = st.role
        /\ errorMsg' = None
        /\ currentPage' = navigatePage("login", st.token)
        /\ console' = navigateConsole("login", st.token)
    /\ storeCall' = Call("logout", "logoutAndNavigate", None, None)
    /\ last' = Ran("logoutAndNavigate", None)
    /\ UNCHANGED <<isSubmitting, http, submitted, phase>>

-----------------------------------------------------------------------------
(* Direct calls on the public AuthService *)

SetSession(t, r) ==
    /\ phase = "ready"
    /\ LET st == setSession(Store, t, r) IN
        /\ localStorage' = st.ls
        /\ token' = st.token
        /\ role' = st.role
    /\ storeCall' = Call("setSession", "caller", Some(t), Some(r))
    /\ last' = Ran("setSession", <<t, r>>)
    /\ UNCHANGED <<currentPage, errorMsg, isSubmitting, http, submitted,
                   console, phase>>

Logout ==
    /\ phase = "ready"
    /\ LET st == logout(Store) IN
        /\ localStorage' = st.ls
        /\ token' = st.token
        /\ role' = st.role
    /\ storeCall' = Call("logout", "caller", None, None)
    /\ last' = Ran("logout", None)
    /\ UNCHANGED <<currentPage, errorMsg, isSubmitting, http, submitted,
                   console, phase>>

-----------------------------------------------------------------------------
(* Specifications *)

\* The view controller's own operations.
AppNext ==
    \/ NgOnInit
    \/ \E page \in Page : Navigate(page)
    \/ OnLogin
    \/ \E i \in DOMAIN http, t \in Tokens, r \in Roles : LoginNext(i, t, r)
    \/ \E i \in DOMAIN http, err \in Errors : LoginError(i, err)
    \/ LogoutAndNavigate

AppSpec == Init /\ [][AppNext]_vars

\* The view controller's operations and direct calls on the session store.
Next ==
    \/ AppNext
    \/ \E t \in Tokens, r \in Roles : SetSession(t, r)
    \/ Logout

Spec == Init /\ [][Next]_vars

\* Request i completes: the endpoint answers it, or the transport fails.
Complete(i) ==
    \/ \E t \in Tokens, r \in Roles : LoginNext(i, t, r)
    \/ \E err \in Errors : LoginError(i, err)

\* Every outstanding request eventually resolves to success or failure.
FairSpec == Spec /\ \A i \in 1..MaxSubmissions : WF_vars(Complete(i))

\* The same, with submissions started only through the form's submit button.
UINext ==
    \/ NgOnInit
    \/ \E page \in Page : Navigate(page)
    \/ SubmitForm
    \/ \E i \in DOMAIN http, t \in Tokens, r \in Roles : LoginNext(i, t, r)
    \/ \E i \in DOMAIN http, err \in Errors : LoginError(i, err)
    \/ LogoutAndNavigate
    \/ \E t \in Tokens, r \in Roles : SetSession(t, r)
    \/ Logout

UISpec == Init /\ [][UINext]_vars

-----------------------------------------------------------------------------
(* Properties *)

Outstanding == {i \in DOMAIN http : http[i] = "pending"}

StorageEmpty == \A k \in Keys : localStorage[k] = None
SessionCleared == token = None /\ role = None /\ StorageEmpty

\* C1 as stated: in every reachable state of the view controller (startup,
\* submissions, completions, navigate, logoutAndNavigate), currentPage is
\* 'dashboard' only if isAuthenticated() is true.
C1_DashboardImpliesAuthenticated ==
    currentPage = "dashboard" => isAuthenticated(token)

\* C1 amended: currentPage is 'dashboard' only if isAuthenticated() is true,
\* or a failure completion's logout() cleared an authenticated session while
\* the dashboard was already shown and navigate has not been called since.
C1_DashboardOnlyThroughGuard ==
    currentPage = "dashboard" =>
        \/ isAuthenticated(token)
        \/ last.revoked /\ storeCall.op = "logout"
              /\ storeCall.by = "loginError"

\* A submission started while unauthenticated has succeeded and shows the
\* dashboard.
C1_Witness ==
    /\ last.op = "loginNext" /\ ~last.wasAuth /\ last.prevPage = "login"
    /\ currentPage = "dashboard" /\ isAuthenticated(token)

\* C2 as stated: after any sequence of setSession and logout calls, for every
\* token and role passed, isAuthenticated() is true iff the most recent call
\* on the session store was setSession.
C2_AuthenticatedIffLastCallSetSession ==
    storeCall.op # "none" =>
        (isAuthenticated(token) <=> storeCall.op = "setSession")

\* C3 as stated: a token or role that setSession has put in memory or in
\* storage is a non-empty string.
C3_SetSessionStoresNonEmpty ==
    storeCall.op = "setSession" =>
        /\ token # Some("") /\ role # Some("")
        /\ localStorage[tokenKey] # Some("") /\ localStorage[roleKey] # Some("")

\* C4: the in-memory token is present (not null) iff the in-memory role is
\* present (not null).
C4_SessionPairing == (token = None) <=> (role = None)

\* A failure completion has cleared a session that held a token and a role.
C4_Witness ==
    /\ last.op = "loginError"
    /\ last.prevStore.token # None /\ last.prevStore.role # None
    /\ token = None /\ role = None

\* C5 as stated: after ngOnInit, currentPage is 'dashboard' if a token was
\* persisted in storage and 'login' if none was; the error message is unset
\* and isSubmitting is false.
C5_StartupByPersistedToken ==
    last.op = "ngOnInit" =>
        /\ currentPage =
             IF localStorage[tokenKey] # None THEN "dashboard" ELSE "login"
        /\ errorMsg = None
        /\ isSubmitting = FALSE

\* Apart from a persisted empty-string token, startup is as C5 states it.
C5_StartupWithoutEmptyToken ==
    (last.op = "ngOnInit" /\ localStorage[tokenKey] # Some("")) =>
        /\ currentPage =
             IF localStorage[tokenKey] # None THEN "dashboard" ELSE "login"
        /\ errorMsg = None
        /\ isSubmitting = FALSE

\* C6: navigate('dashboard') from an unauthenticated state ends with
\* currentPage = 'login' and a warning on the console; navigate(target) from
\* an authenticated state ends with currentPage = target; navigate can always
\* be taken (it never raises).
C6_GuardRefusal ==
    /\ last.op = "navigate" =>
        /\ (~last.wasAuth /\ last.arg = Some("dashboard")) =>
              currentPage = "login" /\ console.level = "warn"
        /\ last.wasAuth => currentPage = last.arg[1]
    /\ phase = "ready" => \A page \in Page : ENABLED Navigate(page)

\* navigate('dashboard') has been refused.
C6_Witness ==
    /\ last.op = "navigate" /\ last.arg = Some("dashboard") /\ ~last.wasAuth
    /\ currentPage = "login" /\ console.level = "warn"

\* C7 as stated: after the success handler for an answer {token: T, role: R},
\* the store is authenticated with token T and role R, currentPage is
\* 'dashboard', the error message is unset and isSubmitting is false.
C7_SuccessAlwaysDashboard ==
    last.op = "loginNext" =>
        /\ isAuthenticated(token)
        /\ token = Some(last.arg[1]) /\ role = Some(last.arg[2])
        /\ currentPage = "dashboard"
        /\ errorMsg = None
        /\ isSubmitting = FALSE

\* Apart from an answer with an empty-string token, the success handler
\* ends as C7 states it.
C7_SuccessWithoutEmptyToken ==
    (last.op = "loginNext" /\ last.arg[1] # "") =>
        /\ isAuthenticated(token)
        /\ token = Some(last.arg[1]) /\ role = Some(last.arg[2])
        /\ currentPage = "dashboard"
        /\ errorMsg = None
        /\ isSubmitting = FALSE

\* C8 as stated: after the failure handler the store is not authenticated,
\* token and role are gone from memory and storage, currentPage is 'login',
\* the error message is the fixed message and isSubmitting is false.
C8_FailureEndsOnLogin ==
    last.op = "loginError" =>
        /\ ~isAuthenticated(token) /\ SessionCleared
        /\ currentPage = "login"
        /\ errorMsg = Some(FixedErrorMsg)
        /\ isSubmitting = FALSE

\* C8 amended: after the failure handler the store is not authenticated,
\* token and role are gone from memory and storage, currentPage is what it
\* was before the completion ('login', or 'dashboard' when the failure
\* arrives while the dashboard is shown), the error message is the fixed
\* message whatever the error payload, and isSubmitting is false.
C8_FailedSubmission ==
    last.op = "loginError" =>
        /\ ~isAuthenticated(token) /\ SessionCleared
        /\ currentPage = last.prevPage
        /\ errorMsg = Some(FixedErrorMsg)
        /\ isSubmitting = FALSE

\* A failure completion has removed a session that was authenticated.
C8_Witness ==
    /\ last.op = "loginError" /\ last.wasAuth
    /\ last.prevStore.ls[tokenKey] # None
    /\ ~isAuthenticated(token) /\ StorageEmpty

\* C9: logoutAndNavigate() ends with the store not authenticated, token and
\* role removed from memory and storage, currentPage = 'login' and the error
\* message unset.
C9_LogoutAndNavigate ==
    last.op = "logoutAndNavigate" =>
        /\ ~isAuthenticated(token) /\ SessionCleared
        /\ currentPage = "login"
        /\ errorMsg = None

\* logoutAndNavigate() has run from the dashboard, authenticated, with a
\* request in flight.
C9_Witness ==
    /\ last.op = "logoutAndNavigate"
    /\ last.wasAuth /\ last.prevPage = "dashboard"
    /\ \E i \in DOMAIN http : http[i] = "pending"
    /\ currentPage = "login"

\* C10: every logout() leaves token and role absent in memory and in storage;
\* a logout() from a logged-out store changes nothing, and logout() applied
\* twice gives the state logout() applied once gives.
C10_LogoutIdempotent ==
    /\ storeCall.op = "logout" => SessionCleared
    /\ (last.op = "logout" /\ last.prevStore = logout(last.prevStore)) =>
          Store = last.prevStore
    /\ logout(logout(Store)) = logout(Store)

\* logout() has been called on a store from which a logout() had already
\* removed a session.
C10_Witness ==
    /\ last.op = "logout"
    /\ last.prevStore.token = None /\ last.prevStore.ls[tokenKey] = None
    /\ Store = last.prevStore

\* C11: the number of requests issued always equals the number of
\* submissions invoked; only onLogin issues a request (a failure completion
\* issues none: no retry), and a request that has completed never completes
\* again.
C11_OneRequestPerSubmission ==
    /\ Len(http) = submitted
    /\ [][/\ Len(http') = submitted'
          /\ Len(http') # Len(http) =>
                last'.op = "onLogin" /\ Len(http') = Len(http) + 1
          /\ \A i \in DOMAIN http :
                http[i] # "pending" => http'[i] = http[i]]_vars

\* Two submissions were invoked, two requests were issued, and the last of
\* them has just failed.
C11_Witness ==
    /\ submitted = 2 /\ Len(http) = 2
    /\ last.op = "loginError"
    /\ \A i \in DOMAIN http : http[i] # "pending"

\* C12 as stated: a logout() alone (direct or from the failure handler) that
\* clears the session while currentPage is 'dashboard' leaves currentPage at
\* 'dashboard'; it stays there until the next navigate call, and that call
\* yields 'login'.
C12_NextNavigateYieldsLogin ==
    /\ last.op \in LogoutOnly => currentPage = last.prevPage
    /\ last.revoked => currentPage = "dashboard"
    /\ (last.wasRevoked /\ last.op \in NavigateCallers) =>
          currentPage = "login"

\* C12 amended: a logout() alone that clears the session while currentPage
\* is 'dashboard' leaves currentPage at 'dashboard'; it stays there until the
\* next navigate call, and that call yields 'login' if the store is still
\* not authenticated when it is made (after a new setSession, as in the
\* success handler, navigate('dashboard') yields 'dashboard').
C12_GuardOnlyAtNavigation ==
    /\ last.op \in LogoutOnly => currentPage = last.prevPage
    /\ last.revoked => currentPage = "dashboard"
    /\ (last.wasRevoked /\ last.op \in NavigateCallers
            /\ ~isAuthenticated(token)) =>
          currentPage = "login"

\* navigate('dashboard') has been called after a failure handler cleared the
\* session on the dashboard, and has ended on the login page.
C12_Witness ==
    /\ last.op = "navigate" /\ last.arg = Some("dashboard")
    /\ last.wasRevoked /\ last.prevPage = "dashboard"
    /\ storeCall.by = "loginError"
    /\ currentPage = "login"

\* C13: when a submission is started only while isSubmitting is false, at
\* most one request is outstanding in every reachable state, and
\* isSubmitting is true exactly when a request is outstanding.
C13_SubmissionMutualExclusion ==
    /\ Cardinality(Outstanding) <= 1
    /\ isSubmitting <=> Outstanding # {}

\* A second submission is in flight after the first one completed.
C13_Witness ==
    /\ submitted = 2 /\ isSubmitting
    /\ Outstanding = {2} /\ http[1] # "pending"

\* C14: when every outstanding request eventually resolves, every state in
\* which isSubmitting is true is followed by one in which it is false, and
\* every outstanding request eventually stops being outstanding.
C14_SubmissionTerminates ==
    /\ isSubmitting ~> ~isSubmitting
    /\ \A i \in 1..MaxSubmissions :
          (i \in DOMAIN http /\ http[i] = "pending") ~>
          (i \in DOMAIN http /\ http[i] # "pending")

\* The last outstanding request has completed and cleared isSubmitting.
C14_Witness ==
    /\ last.op \in {"loginNext", "loginError"} /\ last.wasSubmitting
    /\ ~isSubmitting /\ Outstanding = {} /\ submitted = 2

\* C15: navigate(target), for either target and from any state, ends with
\* the error message unset (also when the transition is refused) and leaves
\* the in-memory token and role, the storage and isSubmitting as they were.
C15_NavigateFrame ==
    last.op = "navigate" =>
        /\ errorMsg = None
        /\ Store = last.prevStore
        /\ isSubmitting = last.wasSubmitting

\* A refused navigate('dashboard') has cleared an error message while
\* another request was still outstanding.
C15_Witness ==
    /\ last.op = "navigate" /\ last.arg = Some("dashboard") /\ ~last.wasAuth
    /\ last.prevError = Some(FixedErrorMsg) /\ errorMsg = None
    /\ Outstanding # {} /\ isSubmitting = last.wasSubmitting

\* C16: in every reachable state the in-memory token equals the value stored
\* under the token key and the in-memory role equals the value stored under
\* the role key, so restoring from storage gives exactly the current session.
C16_StorageMemoryConsistency ==
    /\ token = localStorage[tokenKey]
    /\ role = localStorage[roleKey]
    /\ restore(localStorage) = Store

\* A submission has written a session where there was none, and a later
\* session replaced it.
C16_Witness ==
    /\ storeCall.op = "setSession"
    /\ last.op \in {"loginNext", "setSession"}
    /\ last.prevStore.token # None /\ last.prevStore.token # token
    /\ token = localStorage[tokenKey] /\ Truthy(token)

====
